---- MODULE Spec2Model ----
(***************************************************************************)
(* Verification model of nuscenes2bag.                                     *)
(*                                                                         *)
(*   PipeSpec   NuScenes2Rosbag::processSampleSets: the per-set queue      *)
(*              setup, the single post to the worker pool, the drain loop  *)
(*              and MyProcessor's bag (src/src/NuScenes2Rosbag.cpp,        *)
(*              src/src/MyProcessor.cpp).                                  *)
(*   PipeFairSpec  the same with weak fairness of the drain thread and of  *)
(*              the pool's worker threads.                                 *)
(*   BoxSpec    SceneConverter::getBoxes applied to one SampleData of a    *)
(*              two-sample scene (src/src/SceneConverter.cpp:328-496).     *)
(*   SceneSpec  SceneConverter::submit and run of one scene, next to a     *)
(*              sibling scene of the same process                          *)
(*              (src/src/SceneConverter.cpp:105-321).                      *)
(*   ClassifySpec  extractSampleSetDescriptorInDirectory and getSampleType  *)
(*              applied to one name (src/src/NuScenes2Rosbag.cpp:22-47,    *)
(*              src/src/SceneConverter.cpp:28-43).                         *)
(*   ColorSpec  getColor applied to one category name                      *)
(*              (src/src/SceneConverter.cpp:515-614).                      *)
(*                                                                         *)
(* Floats and doubles are exact fractions; TimeStamp (uint64_t) arithmetic *)
(* wraps around at 2^TimeStampBits.                                        *)
(***************************************************************************)
EXTENDS Integers, Sequences, FiniteSets, TLC

VARIABLES
  \* ---- processSampleSets (NuScenes2Rosbag.cpp:81-130) ----
  sampleSets,            \* argument: sequence of [directoryName, setType, files]
  typeErasedQueueList,   \* sequence of [topicInfo, items, closed]
  sampleSetConverters,   \* sequence of sample-set indices, one per converter
  poolTasks,             \* sequence of converter indices posted to the pool
  pushed,                \* pushed[i]: items converter i has pushed so far
  pc,                    \* position of the thread running processSampleSets
  qi,                    \* index of the for loops (set loop, queue loop)
  atLeastOneQueueIsStillOpen,
  outBag,                \* MyProcessor::outBag: "none" | "open" | "closed"
  written,               \* messages handed to the processor: [topic, item]
  \* ---- SceneConverter (SceneConverter.cpp) ----
  sceneSamples,          \* SceneConverter::sceneSamples: token -> SampleInfo
  sceneAnnotations,      \* SceneConverter::sceneAnnotations: sample token -> list
  sampleData,            \* argument of getBoxes
  boxes,                 \* getBoxes' output vector
  amounts,               \* the values the local `amount` of getBoxes took
  boxPc,                 \* "call" before getBoxes, "returned" after
  sceneTokenArg,         \* the token submit is called with
  metaData,              \* the MetaDataProvider's records of scene "sc1"
  inPath,                \* run's dataset path
  procState,             \* the process: "running" | "aborted" | "crashed"
  siblingLeft,           \* steps another scene's worker still has to do
  scenePc,               \* position of the scene's submit / run
  sceneId,               \* SceneConverter::sceneId
  sceneToken,            \* SceneConverter::sceneToken
  sampleDatas,           \* SceneConverter::sampleDatas
  egoPoseInfos,          \* SceneConverter::egoPoseInfos
  fileProgress,          \* FileProgress counters
  si,                    \* index of the running sub-step's for loop
  bagsOpened,            \* names run opened a bag under
  bagState,              \* run's outBag: "none" | "open" | "closed"
  log,                   \* messages written to run's outBag, in write order
  readResults,           \* what the file reader returned for each SampleData
                         \* convertSampleDatas has gone through
  \* ---- classification and colour of names ----
  inDirectoryPath,       \* argument of extractSampleSetDescriptorInDirectory
  sampleSetOpt,          \* its result: optional FileSystemSampleSet
  fileNameArg,           \* argument of getSampleType
  sampleTypeOpt,         \* its result: a SampleType, or "NONE" for no value
  categoryArg,           \* argument of getColor
  color,                 \* its result
  called                 \* the calls made so far

pipeVars == <<sampleSets, typeErasedQueueList, sampleSetConverters, poolTasks,
              pushed, pc, qi, atLeastOneQueueIsStillOpen, outBag, written>>

convVars == <<sceneSamples, sceneAnnotations>>

boxVars == <<sampleData, boxes, amounts, boxPc>>

sceneVars == <<sceneTokenArg, metaData, inPath, procState, siblingLeft,
               scenePc, sceneId, sceneToken, sampleDatas, egoPoseInfos,
               fileProgress, si, bagsOpened, bagState, log, readResults>>

nameVars == <<inDirectoryPath, sampleSetOpt, fileNameArg, sampleTypeOpt,
              categoryArg, color, called>>

vars == <<pipeVars, convVars, boxVars, sceneVars, nameVars>>

(***************************************************************************)
(* Bounds.                                                                 *)
(***************************************************************************)
MaxSets  == 2    \* sample sets passed to processSampleSets
MaxItems == 2    \* decoded payloads one converter produces
QueueCap == 1    \* capacity of one bounded queue

MaxAnns  == 2    \* annotations attached to one sample
MaxSampleDatas == 2   \* SampleData records of the scene
MaxEgoPoses == 2      \* EgoPose records of the scene
TimeStampBits == 16   \* width kept for TimeStamp (uint64_t) arithmetic

SetTypes == {"CAMERA", "LIDAR"}

Range(s) == {s[k] : k \in 1..Len(s)}

(***************************************************************************)
(* Values.                                                                 *)
(***************************************************************************)

\* A float or double as an exact fraction in lowest terms; den = 0 stands
\* for a non-finite value (NaN, +-inf), which every operation propagates.
RECURSIVE GCD(_, _)
GCD(a, b) == IF b = 0 THEN a ELSE GCD(b, a % b)

Abs(n) == IF n < 0 THEN -n ELSE n

NonFinite == [num |-> 0, den |-> 0]

Frac(n, d) == IF d = 0 THEN NonFinite
              ELSE LET g == GCD(Abs(n), d) IN [num |-> n \div g, den |-> d \div g]

D(n) == [num |-> n, den |-> 1]

Add(a, b) == IF a.den = 0 \/ b.den = 0 THEN NonFinite
             ELSE IF a.den = b.den THEN Frac(a.num + b.num, a.den)
             ELSE Frac(a.num * b.den + b.num * a.den, a.den * b.den)

Sub(a, b) == IF b.den = 0 THEN NonFinite ELSE Add(a, [num |-> -b.num, den |-> b.den])

Mul(a, b) == IF a.den = 0 \/ b.den = 0 THEN NonFinite
             ELSE Frac(a.num * b.num, a.den * b.den)

\* TimeStamp is uint64_t; subtraction wraps around at the kept width.
TimeStampMod == 2 ^ TimeStampBits
UnsignedMinus(a, b) == (a - b + TimeStampMod) % TimeStampMod

Min(a, b) == IF a < b THEN a ELSE b
Max(a, b) == IF a < b THEN b ELSE a

\* std::string::find(substr) != npos
stringContains(str, substr) ==
  \E k \in 1..(Len(str) - Len(substr) + 1) :
    SubSeq(str, k, k + Len(substr) - 1) = substr

(***************************************************************************)
(* SceneConverter: annotation boxes                                        *)
(***************************************************************************)

Red     == [r |-> Frac(1000, 1000), g |-> Frac(239, 1000), b |-> Frac(388, 1000), a |-> Frac(1000, 1000)]
Orange  == [r |-> Frac(1000, 1000), g |-> Frac(619, 1000), b |-> Frac(0, 1000), a |-> Frac(1000, 1000)]
Blue    == [r |-> Frac(0, 1000), g |-> Frac(0, 1000), b |-> Frac(901, 1000), a |-> Frac(1000, 1000)]
Black   == [r |-> Frac(0, 1000), g |-> Frac(0, 1000), b |-> Frac(0, 1000), a |-> Frac(1000, 1000)]
Magenta == [r |-> Frac(1000, 1000), g |-> Frac(0, 1000), b |-> Frac(1000, 1000), a |-> Frac(1000, 1000)]

\* getColor with the vehicle rule tested ahead of the two-wheeler rules.
getColorVehicleFirst(name) ==
  IF stringContains(name, "vehicle") THEN Orange
  ELSE IF stringContains(name, "bicycle") THEN Red
  ELSE IF stringContains(name, "motorcycle") THEN Red
  ELSE IF stringContains(name, "bus") THEN Orange
  ELSE IF stringContains(name, "car") THEN Orange
  ELSE IF stringContains(name, "construction_vehicle") THEN Orange
  ELSE IF stringContains(name, "trailer") THEN Orange
  ELSE IF stringContains(name, "truck") THEN Orange
  ELSE IF stringContains(name, "pedestrian") THEN Blue
  ELSE IF stringContains(name, "cone") THEN Black
  ELSE IF stringContains(name, "barrier") THEN Black
  ELSE Magenta

\* getColor(categoryName): the first keyword found in the name decides.
getColor(name) ==
  IF stringContains(name, "bicycle") THEN Red
  ELSE IF stringContains(name, "motorcycle") THEN Red
  ELSE IF stringContains(name, "vehicle") THEN Orange
  ELSE IF stringContains(name, "bus") THEN Orange
  ELSE IF stringContains(name, "car") THEN Orange
  ELSE IF stringContains(name, "construction_vehicle") THEN Orange
  ELSE IF stringContains(name, "trailer") THEN Orange
  ELSE IF stringContains(name, "truck") THEN Orange
  ELSE IF stringContains(name, "pedestrian") THEN Blue
  ELSE IF stringContains(name, "cone") THEN Black
  ELSE IF stringContains(name, "barrier") THEN Black
  ELSE Magenta

\* Eigen::Vector3d / geometry_msgs::Point from three floats.
Vector3d(v) == [x |-> D(v[1]), y |-> D(v[2]), z |-> D(v[3])]

\* Eigen::Quaterniond(w, x, y, z) from rotation[0..3].
makeQuaterniond(rotation) ==
  [w |-> D(rotation[1]), x |-> D(rotation[2]), y |-> D(rotation[3]),
   z |-> D(rotation[4])]

\* q0.slerp(t, q1), kept as a term: each component names the inputs.
slerp(q0, t, q1) ==
  LET term(c) == [slerp |-> c, t |-> t, q0 |-> q0, q1 |-> q1]
  IN  [w |-> term("w"), x |-> term("x"), y |-> term("y"), z |-> term("z")]

\* lerp with the weights of its two points exchanged.
lerpSwapped(t, p0, p1) ==
  [c \in {"x", "y", "z"} |->
     Add(Mul(Sub(D(1), t), p0[c]), Mul(t, p1[c]))]
\* lerp(t, p0, p1) = t*p0 + (1.0 - t)*p1
lerp(t, p0, p1) ==
  [c \in {"x", "y", "z"} |->
     Add(Mul(t, p0[c]), Mul(Sub(D(1), t), p1[c]))]

\* makeBox(annotation)
makeBox(annotation) ==
  [center |-> Vector3d(annotation.translation),
   size |-> Vector3d(annotation.size),
   orientation |-> makeQuaterniond(annotation.rotation),
   token |-> annotation.token,
   category_name |-> annotation.categoryName,
   color |-> getColor(annotation.categoryName)]

\* makeBox(annotation, center, rotation)
makeBoxAt(annotation, center, rotation) ==
  [center |-> center,
   size |-> Vector3d(annotation.size),
   orientation |-> rotation,
   token |-> annotation.token,
   category_name |-> annotation.categoryName,
   color |-> getColor(annotation.categoryName)]

\* The SampleData's timestamp left as it is.
ClampNone(t0, t1, t) == t

\* `t = std::max(t0, std::min(t1, t))`
ClampTimeStamp(t0, t1, t) == Max(t0, Min(t1, t))

\* prevInstanceMap: std::map::insert keeps the first annotation of a token.
prevInstanceMap(prevAnnotations) ==
  [inst \in {prevAnnotations[k].instanceToken : k \in 1..Len(prevAnnotations)} |->
     prevAnnotations[CHOOSE k \in 1..Len(prevAnnotations) :
                       /\ prevAnnotations[k].instanceToken = inst
                       /\ \A j \in 1..(k - 1) :
                            prevAnnotations[j].instanceToken # inst]]

\* `amount` of one loop iteration, from the clamped t.
InterpolationAmount(t0, t1, t) ==
  LET numerator   == UnsignedMinus(t, t0)
      denominator == UnsignedMinus(t1, t0)
  IN  Frac(numerator, denominator)

\* Body of `for (const auto& annotation : currAnnotations)`.
InterpolatedBox(annotation, prevMap, t0, t1, t) ==
  IF annotation.instanceToken \notin DOMAIN prevMap
    THEN makeBox(annotation)
    ELSE LET prevAnnotation == prevMap[annotation.instanceToken]
             amount == InterpolationAmount(t0, t1, t)
             c0 == Vector3d(prevAnnotation.translation)
             c1 == Vector3d(annotation.translation)
             center == lerp(amount, c1, c0)
             q0 == makeQuaterniond(prevAnnotation.rotation)
             q1 == makeQuaterniond(annotation.rotation)
             rotation == slerp(q0, amount, q1)
         IN  makeBoxAt(annotation, center, rotation)

\* The values of `amount` in loop order: one per interpolated annotation.
RECURSIVE AmountsOf(_, _, _, _, _)
AmountsOf(currAnnotations, prevMap, t0, t1, t) ==
  IF currAnnotations = <<>> THEN <<>>
  ELSE (IF Head(currAnnotations).instanceToken \in DOMAIN prevMap
          THEN <<InterpolationAmount(t0, t1, t)>> ELSE <<>>)
       \o AmountsOf(Tail(currAnnotations), prevMap, t0, t1, t)

NoBoxes == [boxes |-> <<>>, amounts |-> <<>>]

\* The key-frame branch taken for flagged key frames only.
UseCurrentOnlyKeyFrame(sd, currSample) == sd.isKeyFrame

\* `(sampleData.isKeyFrame) || (currSample.prev.empty())`
UseCurrentAnnotations(sd, currSample) == sd.isKeyFrame \/ currSample.prev = ""

\* SceneConverter::getBoxes(sampleData, boxes) on an empty `boxes`.
getBoxes(sd, samples, annotations) ==
  IF sd.sampleToken \notin DOMAIN samples THEN NoBoxes
  ELSE
    LET currSample == samples[sd.sampleToken] IN
    IF UseCurrentAnnotations(sd, currSample)
      THEN IF sd.sampleToken \notin DOMAIN annotations THEN NoBoxes
           ELSE [boxes |-> [k \in 1..Len(annotations[sd.sampleToken]) |->
                              makeBox(annotations[sd.sampleToken][k])],
                 amounts |-> <<>>]
      ELSE
        IF currSample.prev \notin DOMAIN samples THEN NoBoxes
        ELSE
          LET prevSample == samples[currSample.prev] IN
          IF sd.sampleToken \notin DOMAIN annotations THEN NoBoxes
          ELSE IF prevSample.token \notin DOMAIN annotations THEN NoBoxes
          ELSE
            LET currAnnotations == annotations[sd.sampleToken]
                prevMap == prevInstanceMap(annotations[prevSample.token])
                t0 == prevSample.timeStamp
                t1 == currSample.timeStamp
                t  == ClampTimeStamp(t0, t1, sd.timeStamp)
            IN  [boxes |-> [k \in 1..Len(currAnnotations) |->
                              InterpolatedBox(currAnnotations[k], prevMap,
                                              t0, t1, t)],
                 amounts |-> AmountsOf(currAnnotations, prevMap, t0, t1, t)]

(***************************************************************************)
(* BoxSpec: getBoxes applied to one SampleData of a two-sample scene.      *)
(***************************************************************************)

SampleTimeStamps == {100, 200}
DataTimeStamps   == {50, 100, 150, 200, 250}

SampleAnnotationInfo(token, instanceToken, translation, size, rotation, categoryName) ==
  [token |-> token, instanceToken |-> instanceToken,
   translation |-> translation, size |-> size, rotation |-> rotation,
   categoryName |-> categoryName]

\* Annotations the previous sample can carry.
PrevAnnPool ==
  {SampleAnnotationInfo("p1", "i1", <<0, 0, 0>>, <<1, 1, 1>>, <<1, 0, 0, 0>>,
                        "vehicle.car"),
   SampleAnnotationInfo("p2", "i2", <<4, 2, 6>>, <<2, 2, 2>>, <<0, 0, 1, 0>>,
                        "human.pedestrian.adult")}

\* Annotations the current sample can carry.
CurrAnnPool ==
  {SampleAnnotationInfo("c1", "i1", <<2, 4, 6>>, <<1, 2, 3>>, <<0, 1, 0, 0>>,
                        "vehicle.car"),
   SampleAnnotationInfo("c2", "i2", <<8, 2, 0>>, <<2, 3, 4>>, <<0, 0, 0, 1>>,
                        "human.pedestrian.adult"),
   SampleAnnotationInfo("c3", "i3", <<5, 5, 5>>, <<3, 3, 3>>, <<0, 1, 1, 0>>,
                        "movable_object.barrier")}

SeqsUpTo(S, n) == UNION {[1..k -> S] : k \in 0..n}

\* A sample's entry of the annotation map: a list, or no entry at all.
AnnotationEntries(pool) ==
  [present : {TRUE}, list : SeqsUpTo(pool, MaxAnns)]
    \cup {[present |-> FALSE, list |-> <<>>]}

\* Scene "s1" <- "s2": the current sample s2, its prev token empty, s1, or a
\* token that is no sample of the scene.
SceneSamplesOf(t0, t1, prev) ==
  [tok \in {"s1", "s2"} |->
     IF tok = "s1" THEN [token |-> "s1", timeStamp |-> t0, prev |-> ""]
                   ELSE [token |-> "s2", timeStamp |-> t1, prev |-> prev]]

SceneAnnotationsOf(pe, ce) ==
  [tok \in (IF pe.present THEN {"s1"} ELSE {}) \cup
           (IF ce.present THEN {"s2"} ELSE {}) |->
     IF tok = "s1" THEN pe.list ELSE ce.list]

\* The pipeline variables while another part of the program is looked at.
PipeIdle ==
  /\ sampleSets = <<>>
  /\ typeErasedQueueList = <<>>
  /\ sampleSetConverters = <<>>
  /\ poolTasks = <<>>
  /\ pushed = <<>>
  /\ pc = "idle"
  /\ qi = 0
  /\ atLeastOneQueueIsStillOpen = FALSE
  /\ outBag = "none"
  /\ written = <<>>

BoxInit ==
  /\ \E t0 \in SampleTimeStamps, t1 \in SampleTimeStamps,
        prev \in {"", "s1", "s0"} :
       sceneSamples = SceneSamplesOf(t0, t1, prev)
  /\ \E pe \in AnnotationEntries(PrevAnnPool), ce \in AnnotationEntries(CurrAnnPool) :
       sceneAnnotations = SceneAnnotationsOf(pe, ce)
  /\ \E t \in DataTimeStamps, key \in BOOLEAN, tok \in {"s2", "s9"} :
       sampleData = [sampleToken |-> tok, timeStamp |-> t, isKeyFrame |-> key]
  /\ boxes = <<>>
  /\ amounts = <<>>
  /\ boxPc = "call"

\* The box variables while another part of the program is looked at.
BoxIdle ==
  /\ sampleData = <<>>
  /\ boxes = <<>>
  /\ amounts = <<>>
  /\ boxPc = "idle"

\* `std::vector<Box> boxes; getBoxes(sampleData, boxes);`
GetBoxesCall ==
  /\ boxPc = "call"
  /\ LET result == getBoxes(sampleData, sceneSamples, sceneAnnotations)
     IN  /\ boxes' = result.boxes
         /\ amounts' = result.amounts
  /\ boxPc' = "returned"
  /\ UNCHANGED <<sceneSamples, sceneAnnotations, sampleData>>
  /\ UNCHANGED <<pipeVars, sceneVars, nameVars>>

BoxNext == GetBoxesCall

(***************************************************************************)
(* SceneConverter: submit and run                                          *)
(***************************************************************************)

\* toLower(name): every upper-case ASCII letter replaced by its lower case.
UpperCase == "ABCDEFGHIJKLMNOPQRSTUVWXYZ"
LowerCase == "abcdefghijklmnopqrstuvwxyz"

toLowerChar(c) ==
  IF \E k \in 1..Len(UpperCase) : SubSeq(UpperCase, k, k) = c
    THEN LET k == CHOOSE j \in 1..Len(UpperCase) : SubSeq(UpperCase, j, j) = c
         IN  SubSeq(LowerCase, k, k)
    ELSE c

RECURSIVE toLower(_)
toLower(str) ==
  IF Len(str) = 0 THEN ""
  ELSE toLowerChar(SubSeq(str, 1, 1)) \o toLower(SubSeq(str, 2, Len(str)))

\* getSampleType(filename): the first of CAM, RADAR, LIDAR that occurs in
\* the name, as written; "NONE" stands for the empty optional.
getSampleType(filename) ==
  IF stringContains(filename, "CAM") THEN "CAMERA"
  ELSE IF stringContains(filename, "RADAR") THEN "RADAR"
  ELSE IF stringContains(filename, "LIDAR") THEN "LIDAR"
  ELSE "NONE"

\* stampUs2RosTime(timeStamp): microseconds to ros::Time (sec, nsec).
stampUs2RosTime(stampUs) ==
  [sec |-> stampUs \div 1000000, nsec |-> (stampUs % 1000000) * 1000]

\* ros::Time(0), the default stamp of makeTransform.
RosTimeZero == [sec |-> 0, nsec |-> 0]

\* ---- the metadata index of the run ----

SceneIds == {7, 61}
InPaths == {"/data/nuscenes", "/data/CAM_set"}
OutDirectoryPath == "out"

\* The scene's two samples, s1 at 1 and s2 at 3, and their annotations.
MetaSceneSamples == SceneSamplesOf(1, 3, "s1")

MetaSceneAnnotations ==
  [tok \in {"s1", "s2"} |->
     IF tok = "s1"
       THEN <<SampleAnnotationInfo("p1", "i1", <<0, 0, 0>>, <<1, 1, 1>>,
                                   <<1, 0, 0, 0>>, "vehicle.car")>>
       ELSE <<SampleAnnotationInfo("c1", "i1", <<2, 4, 6>>, <<1, 2, 3>>,
                                   <<0, 1, 0, 0>>, "vehicle.car"),
              SampleAnnotationInfo("c3", "i3", <<5, 5, 5>>, <<3, 3, 3>>,
                                   <<0, 1, 1, 0>>, "movable_object.barrier")>>]

\* calibrated sensor token -> CalibratedSensorInfo
CalibratedSensors ==
  [tok \in {"cs_lidar", "cs_cam", "cs_radar"} |->
     [token |-> tok,
      sensorToken |-> IF tok = "cs_lidar" THEN "sn_lidar"
                      ELSE IF tok = "cs_cam" THEN "sn_cam" ELSE "sn_radar",
      translation |-> <<1, 0, 2>>, rotation |-> <<1, 0, 0, 0>>]]

\* sensor token -> CalibratedSensorName
SensorNames ==
  [tok \in {"sn_lidar", "sn_cam", "sn_radar"} |->
     [name |-> IF tok = "sn_lidar" THEN "LIDAR_TOP"
               ELSE IF tok = "sn_cam" THEN "CAM_FRONT" ELSE "RADAR_FRONT"]]

getCalibratedSensorInfo(calibratedSensorToken) ==
  CalibratedSensors[calibratedSensorToken]

getSensorName(sensorToken) == SensorNames[sensorToken]

getSceneCalibratedSensorInfo(tok) ==
  <<[info |-> CalibratedSensors["cs_lidar"], name |-> SensorNames["sn_lidar"]],
    [info |-> CalibratedSensors["cs_cam"], name |-> SensorNames["sn_cam"]]>>

SampleDataInfo(fileName, calibratedSensorToken, timeStamp) ==
  [fileName |-> fileName, calibratedSensorToken |-> calibratedSensorToken,
   sampleToken |-> "s2", timeStamp |-> timeStamp,
   isKeyFrame |-> (timeStamp = 3)]

\* SampleData records of sample s2: the key frame at 3 and a sweep at 2 of
\* the lidar, a camera sweep, a radar key frame and a file of no sensor.
SampleDataPool ==
  {SampleDataInfo(f[1], f[2], f[3]) :
     f \in {<<"samples/LIDAR_TOP/a.bin", "cs_lidar", 3>>,
            <<"sweeps/LIDAR_TOP/a.bin", "cs_lidar", 2>>,
            <<"sweeps/CAM_FRONT/a.jpg", "cs_cam", 2>>,
            <<"samples/RADAR_FRONT/a.pcd", "cs_radar", 3>>,
            <<"samples/misc/a.txt", "cs_lidar", 2>>}}

EgoPoseInfo(timeStamp) ==
  [timeStamp |-> timeStamp, translation |-> <<timeStamp, 0, 0>>,
   rotation |-> <<1, 0, 0, 0>>]

\* The index keeps a scene's ego poses ordered by timestamp.
SortedEgoPoses ==
  {e \in SeqsUpTo({EgoPoseInfo(t) : t \in {1, 2}}, MaxEgoPoses) :
     \A k \in 1..(Len(e) - 1) : e[k].timeStamp <= e[k + 1].timeStamp}

\* MetaDataProvider lookups for the one scene "sc1" of the index.
getSceneInfo(md, tok) ==
  IF tok = "sc1" THEN [present |-> TRUE, sceneId |-> md.sceneId]
                 ELSE [present |-> FALSE, sceneId |-> 0]
getSceneSamples(md, tok) == MetaSceneSamples
getSceneSampleAnnotations(md, tok) == MetaSceneAnnotations
getSceneSampleData(md, tok) == md.sampleDatas
getEgoPoseInfo(md, tok) == md.egoPoses

\* Odometry and odom->base_link transform of one ego pose.
egoPoseInfo2OdometryMsg(egoPose) ==
  [kind |-> "odometry",
   header |-> [stamp |-> stampUs2RosTime(egoPose.timeStamp),
               frame_id |-> "odom"],
   child_frame_id |-> "base_link",
   position |-> egoPose.translation, orientation |-> egoPose.rotation]

egoPoseInfo2TransformStamped(egoPose) ==
  [header |-> [stamp |-> stampUs2RosTime(egoPose.timeStamp),
               frame_id |-> "odom"],
   child_frame_id |-> "base_link",
   translation |-> egoPose.translation, rotation |-> egoPose.rotation]

makeTransform(frame_id, child_frame_id, translation, rotation) ==
  [header |-> [stamp |-> RosTimeZero, frame_id |-> frame_id],
   child_frame_id |-> child_frame_id,
   translation |-> translation, rotation |-> rotation]

makeIdentityTransform(frame_id, child_frame_id) ==
  [header |-> [stamp |-> RosTimeZero, frame_id |-> frame_id],
   child_frame_id |-> child_frame_id,
   translation |-> <<0, 0, 0>>, rotation |-> <<1, 0, 0, 0>>]

\* constantTransforms of convertEgoPoseInfos.
constantTransforms(calibratedSensorInfos) ==
  [k \in 1..Len(calibratedSensorInfos) |->
     makeTransform("base_link", toLower(calibratedSensorInfos[k].name.name),
                   calibratedSensorInfos[k].info.translation,
                   calibratedSensorInfos[k].info.rotation)]
  \o <<makeIdentityTransform("map", "odom")>>

\* makeMarkerMsg(box, id, timestamp, lifetime): a LINE_LIST of 12 edges.
makeMarkerMsg(box, id, timestamp) ==
  [id |-> id, ns |-> "annotations",
   header |-> [stamp |-> timestamp, frame_id |-> "map"],
   color |-> box.color, points |-> 24, colors |-> 24]

\* makeMarkerArrayMsg(boxes, timestamp, lifetime)
makeMarkerArrayMsg(bs, timestamp) ==
  [kind |-> "markers",
   markers |-> [k \in 1..Len(bs) |-> makeMarkerMsg(bs[k], k - 1, timestamp)]]

\* outBag.write(topic, time, msg)
BagWrite(bag, topic, time, msg) ==
  Append(bag, [topic |-> topic, time |-> time, msg |-> msg])

\* The messages one ego pose adds to the bag: /odom, then /tf.
EgoPoseWrites(bag, egoPose, constants) ==
  LET odomMsg == egoPoseInfo2OdometryMsg(egoPose)
      tfMsg == [kind |-> "tf",
                transforms |->
                  <<egoPoseInfo2TransformStamped(egoPose)>> \o
                  [k \in 1..Len(constants) |->
                     [constants[k] EXCEPT !.header.stamp = odomMsg.header.stamp]]]
  IN  BagWrite(BagWrite(bag, "/odom", odomMsg.header.stamp, odomMsg),
               "/tf", odomMsg.header.stamp, tfMsg)

\* Boxes written for the camera files instead.
AnnotatedCameraType == "CAMERA"

\* The sensor type convertAnnotations writes boxes for.
AnnotatedSampleType == "LIDAR"

\* The messages one SampleData adds in convertAnnotations.
AnnotationWrites(bag, sd, samples, annotations) ==
  IF getSampleType(sd.fileName) # AnnotatedSampleType THEN bag
  ELSE LET bs == getBoxes(sd, samples, annotations).boxes
           timestamp == stampUs2RosTime(sd.timeStamp)
           boxesMsg == [kind |-> "boxes",
                        header |-> [stamp |-> timestamp, frame_id |-> "map"],
                        boxes |-> bs]
       IN  BagWrite(BagWrite(bag, "boxes", timestamp, boxesMsg),
                    "boxes_viz", timestamp, makeMarkerArrayMsg(bs, timestamp))

\* writeMsg with the topic name put into the header's frame id.
writeMsgFrameIsTopic(bag, topicName, frameID, timeStamp, msgOpt) ==
  IF msgOpt.present
    THEN LET stamp == stampUs2RosTime(timeStamp)
         IN  BagWrite(bag, topicName, stamp,
                      [kind |-> msgOpt.kind,
                       header |-> [stamp |-> stamp, frame_id |-> topicName]])
    ELSE bag

\* writeMsg(topicName, frameID, timeStamp, outBag, msgOpt)
writeMsg(bag, topicName, frameID, timeStamp, msgOpt) ==
  IF msgOpt.present
    THEN LET stamp == stampUs2RosTime(timeStamp)
         IN  BagWrite(bag, topicName, stamp,
                      [kind |-> msgOpt.kind,
                       header |-> [stamp |-> stamp, frame_id |-> frameID]])
    ELSE bag

\* The messages one SampleData adds in convertSampleDatas; `decoded` is
\* whether the file's reader returned a message.
SampleDataWrites(bag, sd, path, decoded) ==
  LET sampleType == getSampleType(path \o "/" \o sd.fileName)
      sensorName ==
        toLower(getSensorName(
                  getCalibratedSensorInfo(sd.calibratedSensorToken).sensorToken).name)
  IN  IF sampleType = "CAMERA"
        THEN writeMsg(bag, sensorName \o "/raw", sensorName, sd.timeStamp,
                      [present |-> decoded, kind |-> "image"])
      ELSE IF sampleType = "LIDAR"
        THEN writeMsg(bag, sensorName, sensorName, sd.timeStamp,
                      [present |-> decoded, kind |-> "pointcloud"])
      ELSE IF sampleType = "RADAR"
        THEN writeMsg(bag, sensorName, sensorName, sd.timeStamp,
                      [present |-> decoded, kind |-> "radar"])
      ELSE bag

SceneInit ==
  /\ sceneTokenArg \in {"sc1", "scX"}
  /\ \E id \in SceneIds, sds \in SeqsUpTo(SampleDataPool, MaxSampleDatas),
        eps \in SortedEgoPoses :
       metaData = [sceneId |-> id, sampleDatas |-> sds, egoPoses |-> eps]
  /\ inPath \in InPaths
  /\ procState = "running"
  /\ siblingLeft = 1
  /\ scenePc = "created"
  /\ sceneId = 0
  /\ sceneToken = ""
  /\ sceneSamples = <<>>
  /\ sceneAnnotations = <<>>
  /\ sampleDatas = <<>>
  /\ egoPoseInfos = <<>>
  /\ fileProgress = [toProcess |-> 0, processed |-> 0]
  /\ si = 0
  /\ bagsOpened = <<>>
  /\ bagState = "none"
  /\ log = <<>>
  /\ readResults = <<>>

\* The scene variables while another part of the program is looked at.
SceneIdle ==
  /\ sceneTokenArg = ""
  /\ metaData = <<>>
  /\ inPath = ""
  /\ procState = "idle"
  /\ siblingLeft = 0
  /\ scenePc = "idle"
  /\ sceneId = 0
  /\ sceneToken = ""
  /\ sampleDatas = <<>>
  /\ egoPoseInfos = <<>>
  /\ fileProgress = [toProcess |-> 0, processed |-> 0]
  /\ si = 0
  /\ bagsOpened = <<>>
  /\ bagState = "none"
  /\ log = <<>>
  /\ readResults = <<>>

\* What a failed `assert(sceneInfoOpt.has_value())` and the access after it
\* come to: abort() with assertions on; without them bad_optional_access out
\* of value(), or a null shared_ptr dereference that crashes the process.
MissingSceneOutcomes == {"aborted", "threw", "crashed"}

\* submit(sceneToken, fileProgress)
Submit ==
  /\ procState = "running"
  /\ scenePc = "created"
  /\ LET sceneInfoOpt == getSceneInfo(metaData, sceneTokenArg) IN
     IF sceneInfoOpt.present
       THEN /\ sceneId' = sceneInfoOpt.sceneId
            /\ sceneToken' = sceneTokenArg
            /\ sceneSamples' = getSceneSamples(metaData, sceneTokenArg)
            /\ sceneAnnotations' = getSceneSampleAnnotations(metaData, sceneTokenArg)
            /\ sampleDatas' = getSceneSampleData(metaData, sceneTokenArg)
            /\ egoPoseInfos' = getEgoPoseInfo(metaData, sceneTokenArg)
            /\ fileProgress' = [fileProgress EXCEPT
                 !.toProcess = @ + Len(getSceneSampleData(metaData, sceneTokenArg))]
            /\ scenePc' = "submitted"
            /\ UNCHANGED procState
       ELSE /\ \E outcome \in MissingSceneOutcomes :
                 /\ scenePc' = outcome
                 /\ procState' = IF outcome = "threw" THEN procState ELSE outcome
            /\ UNCHANGED <<sceneId, sceneToken, sceneSamples, sceneAnnotations,
                           sampleDatas, egoPoseInfos, fileProgress>>
  /\ UNCHANGED <<sceneTokenArg, metaData, inPath, siblingLeft, si, bagsOpened,
                 bagState, log, readResults>>
  /\ UNCHANGED <<pipeVars, boxVars, nameVars>>

\* bagName of run.
BagName(outDirectoryPath, id) ==
  outDirectoryPath \o "/" \o ToString(id) \o ".bag"

\* run: `outBag.open(bagName, Write)`.
RunOpen ==
  /\ procState = "running"
  /\ scenePc = "submitted"
  /\ bagsOpened' = Append(bagsOpened, BagName(OutDirectoryPath, sceneId))
  /\ bagState' = "open"
  /\ scenePc' = "egoPoses"
  /\ si' = 1
  /\ UNCHANGED <<sceneTokenArg, metaData, inPath, procState, siblingLeft,
                 sceneId, sceneToken, sceneSamples, sceneAnnotations,
                 sampleDatas, egoPoseInfos, fileProgress, log, readResults>>
  /\ UNCHANGED <<pipeVars, boxVars, nameVars>>

\* The sub-steps with the sensor payloads ahead of the annotations.
RunOrderSensorsFirst == <<"egoPoses", "sampleDatas", "annotations", "close">>

\* The sub-steps of run in the order run calls them.
RunOrder == <<"egoPoses", "annotations", "sampleDatas", "close">>
NextPhase(phase) ==
  LET k == CHOOSE j \in 1..Len(RunOrder) : RunOrder[j] = phase
  IN  RunOrder[k + 1]

\* convertEgoPoseInfos: one iteration of `for (egoPose : egoPoseInfos)`, or
\* the return to run.
ConvertEgoPoseInfos ==
  /\ procState = "running"
  /\ scenePc = "egoPoses"
  /\ IF si <= Len(egoPoseInfos)
       THEN /\ log' = EgoPoseWrites(log, egoPoseInfos[si],
                        constantTransforms(getSceneCalibratedSensorInfo(sceneToken)))
            /\ si' = si + 1
            /\ scenePc' = scenePc
       ELSE /\ scenePc' = NextPhase("egoPoses")
            /\ si' = 1
            /\ UNCHANGED log
  /\ UNCHANGED <<sceneTokenArg, metaData, inPath, procState, siblingLeft,
                 sceneId, sceneToken, sceneSamples, sceneAnnotations,
                 sampleDatas, egoPoseInfos, fileProgress, bagsOpened, bagState,
                 readResults>>
  /\ UNCHANGED <<pipeVars, boxVars, nameVars>>

\* convertAnnotations: one iteration of `for (sampleData : sampleDatas)`, or
\* the return to run.
ConvertAnnotations ==
  /\ procState = "running"
  /\ scenePc = "annotations"
  /\ IF si <= Len(sampleDatas)
       THEN /\ log' = AnnotationWrites(log, sampleDatas[si], sceneSamples,
                                       sceneAnnotations)
            /\ si' = si + 1
            /\ scenePc' = scenePc
       ELSE /\ scenePc' = NextPhase("annotations")
            /\ si' = 1
            /\ UNCHANGED log
  /\ UNCHANGED <<sceneTokenArg, metaData, inPath, procState, siblingLeft,
                 sceneId, sceneToken, sceneSamples, sceneAnnotations,
                 sampleDatas, egoPoseInfos, fileProgress, bagsOpened, bagState,
                 readResults>>
  /\ UNCHANGED <<pipeVars, boxVars, nameVars>>

\* What the reader of a file can return: nothing is read for a file of no
\* sensor type; a reader returns a message or an empty optional.
ReadOutcomes(sampleType) ==
  IF sampleType = "NONE" THEN {"none"} ELSE {"decoded", "absent"}

\* convertSampleDatas: one iteration of `for (sampleData : sampleDatas)`, or
\* the return to run.  A file of no sensor type is skipped by `continue`
\* before it is counted as processed.
ConvertSampleDatas ==
  /\ procState = "running"
  /\ scenePc = "sampleDatas"
  /\ IF si <= Len(sampleDatas)
       THEN /\ \E r \in ReadOutcomes(getSampleType(
                                        inPath \o "/" \o sampleDatas[si].fileName)) :
                 /\ log' = SampleDataWrites(log, sampleDatas[si], inPath,
                                            r = "decoded")
                 /\ readResults' = Append(readResults, r)
            /\ fileProgress' =
                 IF getSampleType(inPath \o "/" \o sampleDatas[si].fileName) = "NONE"
                   THEN fileProgress
                   ELSE [fileProgress EXCEPT !.processed = @ + 1]
            /\ si' = si + 1
            /\ scenePc' = scenePc
       ELSE /\ scenePc' = NextPhase("sampleDatas")
            /\ si' = 1
            /\ UNCHANGED <<log, fileProgress, readResults>>
  /\ UNCHANGED <<sceneTokenArg, metaData, inPath, procState, siblingLeft,
                 sceneId, sceneToken, sceneSamples, sceneAnnotations,
                 sampleDatas, egoPoseInfos, bagsOpened, bagState>>
  /\ UNCHANGED <<pipeVars, boxVars, nameVars>>

\* A bag that run leaves open.
BagLeftOpen == "open"

\* The bag's state once run is over, by return or by exception.
BagAfterRun == "closed"

\* run: `outBag.close();` and return.
RunClose ==
  /\ procState = "running"
  /\ scenePc = "close"
  /\ bagState' = BagAfterRun
  /\ scenePc' = "complete"
  /\ UNCHANGED <<sceneTokenArg, metaData, inPath, procState, siblingLeft,
                 sceneId, sceneToken, sceneSamples, sceneAnnotations,
                 sampleDatas, egoPoseInfos, fileProgress, si, bagsOpened, log,
                 readResults>>
  /\ UNCHANGED <<pipeVars, boxVars, nameVars>>

\* outBag.write throws (the writer's IOError) in one of the three sub-steps:
\* the exception leaves run, and the destructor of the local `outBag`
\* closes the bag.
RunWriteThrows ==
  /\ procState = "running"
  /\ \/ scenePc = "egoPoses" /\ si <= Len(egoPoseInfos)
     \/ scenePc \in {"annotations", "sampleDatas"} /\ si <= Len(sampleDatas)
  /\ bagState' = BagAfterRun
  /\ scenePc' = "runThrew"
  /\ UNCHANGED <<sceneTokenArg, metaData, inPath, procState, siblingLeft,
                 sceneId, sceneToken, sceneSamples, sceneAnnotations,
                 sampleDatas, egoPoseInfos, fileProgress, si, bagsOpened, log,
                 readResults>>
  /\ UNCHANGED <<pipeVars, boxVars, nameVars>>

\* Another scene's worker makes progress while the process is alive.
SiblingStep ==
  /\ procState = "running"
  /\ siblingLeft > 0
  /\ siblingLeft' = siblingLeft - 1
  /\ UNCHANGED <<sceneTokenArg, metaData, inPath, procState, scenePc,
                 sceneId, sceneToken, sceneSamples, sceneAnnotations,
                 sampleDatas, egoPoseInfos, fileProgress, si, bagsOpened,
                 bagState, log, readResults>>
  /\ UNCHANGED <<pipeVars, boxVars, nameVars>>

SceneNext ==
  \/ Submit
  \/ RunOpen
  \/ ConvertEgoPoseInfos
  \/ ConvertAnnotations
  \/ ConvertSampleDatas
  \/ RunClose
  \/ RunWriteThrows
  \/ SiblingStep

(***************************************************************************)
(* processSampleSets                                                       *)
(***************************************************************************)

\* Directory name of the k-th sample set of the input.
DirName(k, type) == IF type = "CAMERA" THEN "CAM_" \o ToString(k)
                                        ELSE "LIDAR_" \o ToString(k)

SampleSetInputs ==
  UNION {[1..n -> [setType : SetTypes, files : 0..MaxItems]] : n \in 0..MaxSets}

\* topicNameForSampleSetType(directoryName, setType), kept as a term.
topicNameForSampleSetType(directoryName, setType) ==
  <<"topic", directoryName, setType>>

PipeInit ==
  /\ \E f \in SampleSetInputs :
       sampleSets = [k \in 1..Len(f) |->
                       [directoryName |-> DirName(k, f[k].setType),
                        setType |-> f[k].setType,
                        files |-> f[k].files]]
  /\ typeErasedQueueList = <<>>
  /\ sampleSetConverters = <<>>
  /\ poolTasks = <<>>
  /\ pushed = [k \in 1..Len(sampleSets) |-> 0]
  /\ pc = "setLoop"
  /\ qi = 1
  /\ atLeastOneQueueIsStillOpen = FALSE
  /\ outBag = "none"
  /\ written = <<>>

\* One iteration of `for (const auto &sampleSet : sampleSets)`: make the
\* queue, then the converter for a CAMERA set, throw for any other type.
SetLoopStep ==
  /\ UNCHANGED <<convVars, boxVars, sceneVars, nameVars>>
  /\ pc = "setLoop"
  /\ qi <= Len(sampleSets)
  /\ typeErasedQueueList' = Append(typeErasedQueueList,
         [topicInfo |-> topicNameForSampleSetType(sampleSets[qi].directoryName,
                                                  sampleSets[qi].setType),
          items |-> <<>>, closed |-> FALSE])
  /\ IF sampleSets[qi].setType = "CAMERA"
       THEN /\ sampleSetConverters' = Append(sampleSetConverters, qi)
            /\ qi' = qi + 1
            /\ pc' = pc
       ELSE /\ pc' = "thrown"
            /\ UNCHANGED <<sampleSetConverters, qi>>
  /\ UNCHANGED <<sampleSets, poolTasks, pushed, atLeastOneQueueIsStillOpen,
                 outBag, written>>

\* The converters handed to boost::asio::post after the set loop.
PostedConverters(converters) == <<converters[Len(converters)]>>

\* `converter = sampleSetConverters.back().get(); post(pool, ...)`.
\* back() of an empty vector is undefined: the build either crashes or goes on
\* with a task that touches nothing of this model.
PostConverter ==
  /\ UNCHANGED <<convVars, boxVars, sceneVars, nameVars>>
  /\ pc = "setLoop"
  /\ qi > Len(sampleSets)
  /\ IF sampleSetConverters = <<>>
       THEN /\ pc' \in {"crashed", "openBag"}
            /\ UNCHANGED poolTasks
       ELSE /\ poolTasks' = poolTasks \o PostedConverters(sampleSetConverters)
            /\ pc' = "openBag"
  /\ UNCHANGED <<sampleSets, typeErasedQueueList, sampleSetConverters, pushed,
                 qi, atLeastOneQueueIsStillOpen, outBag, written>>

\* `fs::remove(outputRosbagPath); MyProcessor processor(...)`: the
\* constructor opens the bag.
OpenBag ==
  /\ UNCHANGED <<convVars, boxVars, sceneVars, nameVars>>
  /\ pc = "openBag"
  /\ outBag' = "open"
  /\ pc' = "passStart"
  /\ UNCHANGED <<sampleSets, typeErasedQueueList, sampleSetConverters,
                 poolTasks, pushed, qi, atLeastOneQueueIsStillOpen, written>>

\* `while (true) { bool atLeastOneQueueIsStillOpen = false; for (...)`.
PassStart ==
  /\ UNCHANGED <<convVars, boxVars, sceneVars, nameVars>>
  /\ pc = "passStart"
  /\ atLeastOneQueueIsStillOpen' = FALSE
  /\ qi' = 1
  /\ pc' = "readClosed"
  /\ UNCHANGED <<sampleSets, typeErasedQueueList, sampleSetConverters,
                 poolTasks, pushed, outBag, written>>

\* The condition without its isClosed() operand.
QueueIsStillOpenSizeOnly(closedSeen, sizeSeen) == sizeSeen > 0

\* The condition `!queue.isClosed() || (queue.size() > 0)` from the two
\* values it reads; size is read only when isClosed() returned true.
QueueIsStillOpen(closedSeen, sizeSeen) == (~closedSeen) \/ (sizeSeen > 0)

\* End of the for loop, or the left operand queue.isClosed(): an open queue
\* is processed at once, for a closed one size() is read next.
ReadClosed ==
  /\ UNCHANGED <<convVars, boxVars, sceneVars, nameVars>>
  /\ pc = "readClosed"
  /\ IF qi > Len(typeErasedQueueList)
       THEN pc' = "passEnd" /\ UNCHANGED <<atLeastOneQueueIsStillOpen, qi>>
       ELSE IF typeErasedQueueList[qi].closed
              THEN pc' = "readSize"
                   /\ UNCHANGED <<atLeastOneQueueIsStillOpen, qi>>
              ELSE IF QueueIsStillOpen(FALSE, Len(typeErasedQueueList[qi].items))
                     THEN /\ pc' = "process"
                          /\ atLeastOneQueueIsStillOpen' = TRUE
                          /\ qi' = qi
                     ELSE /\ pc' = pc
                          /\ qi' = qi + 1
                          /\ UNCHANGED atLeastOneQueueIsStillOpen
  /\ UNCHANGED <<sampleSets, typeErasedQueueList, sampleSetConverters,
                 poolTasks, pushed, outBag, written>>

\* Right operand: queue.size() > 0, read after isClosed().
ReadSize ==
  /\ UNCHANGED <<convVars, boxVars, sceneVars, nameVars>>
  /\ pc = "readSize"
  /\ IF QueueIsStillOpen(TRUE, Len(typeErasedQueueList[qi].items))
       THEN /\ pc' = "process"
            /\ atLeastOneQueueIsStillOpen' = TRUE
            /\ qi' = qi
       ELSE /\ pc' = "readClosed"
            /\ qi' = qi + 1
            /\ UNCHANGED atLeastOneQueueIsStillOpen
  /\ UNCHANGED <<sampleSets, typeErasedQueueList, sampleSetConverters,
                 poolTasks, pushed, outBag, written>>

\* queue.process(topicInfo, processor): pop one ready item and forward it to
\* the processor under the queue's topic.
ProcessPop ==
  /\ UNCHANGED <<convVars, boxVars, sceneVars, nameVars>>
  /\ pc = "process"
  /\ typeErasedQueueList[qi].items # <<>>
  /\ written' = Append(written,
                       [topic |-> typeErasedQueueList[qi].topicInfo,
                        item |-> Head(typeErasedQueueList[qi].items)])
  /\ typeErasedQueueList' =
       [typeErasedQueueList EXCEPT ![qi].items = Tail(@)]
  /\ UNCHANGED <<sampleSets, sampleSetConverters, poolTasks, pushed, pc, qi,
                 atLeastOneQueueIsStillOpen, outBag>>

\* queue.process returns when no item is ready; the for loop goes on.
ProcessReturn ==
  /\ UNCHANGED <<convVars, boxVars, sceneVars, nameVars>>
  /\ pc = "process"
  /\ typeErasedQueueList[qi].items = <<>>
  /\ pc' = "readClosed"
  /\ qi' = qi + 1
  /\ UNCHANGED <<sampleSets, typeErasedQueueList, sampleSetConverters,
                 poolTasks, pushed, atLeastOneQueueIsStillOpen, outBag,
                 written>>

\* `if (!atLeastOneQueueIsStillOpen) break;`
PassEnd ==
  /\ UNCHANGED <<convVars, boxVars, sceneVars, nameVars>>
  /\ pc = "passEnd"
  /\ pc' = IF atLeastOneQueueIsStillOpen THEN "passStart" ELSE "join"
  /\ UNCHANGED <<sampleSets, typeErasedQueueList, sampleSetConverters,
                 poolTasks, pushed, qi, atLeastOneQueueIsStillOpen, outBag,
                 written>>

\* The converter of set k has pushed everything and closed its queue.
TaskFinished(k) == typeErasedQueueList[k].closed

\* pool.join() returns once every posted task has finished; on return
\* ~MyProcessor closes the bag.
JoinAndReturn ==
  /\ UNCHANGED <<convVars, boxVars, sceneVars, nameVars>>
  /\ pc = "join"
  /\ \A t \in 1..Len(poolTasks) : TaskFinished(poolTasks[t])
  /\ outBag' = "closed"
  /\ pc' = "done"
  /\ UNCHANGED <<sampleSets, typeErasedQueueList, sampleSetConverters,
                 poolTasks, pushed, qi, atLeastOneQueueIsStillOpen, written>>

\* converter->process() on a pool thread: push the next decoded payload into
\* the converter's queue, waiting while the queue is full.
ProducerPush(k) ==
  /\ UNCHANGED <<convVars, boxVars, sceneVars, nameVars>>
  /\ k \in Range(poolTasks)
  /\ ~typeErasedQueueList[k].closed
  /\ pushed[k] < sampleSets[k].files
  /\ Len(typeErasedQueueList[k].items) < QueueCap
  /\ typeErasedQueueList' =
       [typeErasedQueueList EXCEPT ![k].items = Append(@, <<k, pushed[k] + 1>>)]
  /\ pushed' = [pushed EXCEPT ![k] = @ + 1]
  /\ UNCHANGED <<sampleSets, sampleSetConverters, poolTasks, pc, qi,
                 atLeastOneQueueIsStillOpen, outBag, written>>

\* converter->process() is through its files: the queue is closed.
ProducerClose(k) ==
  /\ UNCHANGED <<convVars, boxVars, sceneVars, nameVars>>
  /\ k \in Range(poolTasks)
  /\ ~typeErasedQueueList[k].closed
  /\ pushed[k] = sampleSets[k].files
  /\ typeErasedQueueList' = [typeErasedQueueList EXCEPT ![k].closed = TRUE]
  /\ UNCHANGED <<sampleSets, sampleSetConverters, poolTasks, pushed, pc, qi,
                 atLeastOneQueueIsStillOpen, outBag, written>>

Producers == \E k \in 1..Len(sampleSets) : ProducerPush(k) \/ ProducerClose(k)

MainThread ==
  \/ SetLoopStep
  \/ PostConverter
  \/ OpenBag
  \/ PassStart
  \/ ReadClosed
  \/ ReadSize
  \/ ProcessPop
  \/ ProcessReturn
  \/ PassEnd
  \/ JoinAndReturn

PipeNext ==
  \/ SetLoopStep
  \/ PostConverter
  \/ OpenBag
  \/ PassStart
  \/ ReadClosed
  \/ ReadSize
  \/ ProcessPop
  \/ ProcessReturn
  \/ PassEnd
  \/ JoinAndReturn
  \/ \E k \in 1..Len(sampleSets) : ProducerPush(k)
  \/ \E k \in 1..Len(sampleSets) : ProducerClose(k)

(***************************************************************************)
(* Classification of directory and file names; colours of categories.      *)
(***************************************************************************)

MaxNameParts == 2   \* parts a generated name is put together from

RECURSIVE Join(_)
Join(parts) == IF parts = <<>> THEN "" ELSE Head(parts) \o Join(Tail(parts))

\* Names put together from one to n of the given parts.
NamesOf(parts, n) == {Join(q) : q \in SeqsUpTo(parts, n) \ {<<>>}}

\* Directory and file names: the markers in upper, lower and mixed case,
\* whole and split, and parts that hold no marker.
NameParts ==
  {"CAM", "cam", "Cam", "RADAR", "radar", "LIDAR", "lidar", "CA", "M",
   "LID", "AR", "_FRONT", "_front", "_TOP", "MISC_SENSOR"}

ParentPaths == {"/data/nuscenes/samples", "/data/CAM_set/samples"}

\* std::filesystem::path::fileNameArg(): what follows the last separator.
RECURSIVE pathFilename(_)
pathFilename(path) ==
  IF stringContains(path, "/")
    THEN LET k == CHOOSE j \in 1..Len(path) : SubSeq(path, j, j) = "/"
         IN  pathFilename(SubSeq(path, k + 1, Len(path)))
    ELSE path

\* string_icontains(str, substr): substring search that ignores case.
string_icontains(str, substr) == stringContains(toLower(str), toLower(substr))

\* The marker table with the lidar marker tried first.
presetsLidarFirst ==
  <<[name |-> "LIDAR", sampleType |-> "LIDAR"],
    [name |-> "CAM",   sampleType |-> "CAMERA"],
    [name |-> "RADAR", sampleType |-> "RADAR"]>>

\* `static std::array<InfoPreset, 3> presets`
presets ==
  <<[name |-> "CAM",   sampleType |-> "CAMERA"],
    [name |-> "RADAR", sampleType |-> "RADAR"],
    [name |-> "LIDAR", sampleType |-> "LIDAR"]>>

NoSampleSet ==
  [present |-> FALSE, directoryName |-> "", setType |-> "NONE",
   directoryPath |-> ""]

\* extractSampleSetDescriptorInDirectory(inDirectoryPath)
extractSampleSetDescriptorInDirectory(path) ==
  LET dirName == pathFilename(path)
      hits == {k \in 1..Len(presets) : string_icontains(dirName, presets[k].name)}
  IN  IF hits = {} THEN NoSampleSet
      ELSE LET preset == presets[CHOOSE k \in hits : \A j \in hits : k <= j]
           IN  [present |-> TRUE, directoryName |-> dirName,
                setType |-> preset.sampleType, directoryPath |-> path]

\* Category names: nuScenes' category prefixes and leaves.
CategoryParts ==
  {"vehicle.", "human.", "movable_object.", "static_object.", "animal",
   "car", "bicycle", "motorcycle", "bus.rigid", "construction", "trailer",
   "truck", "pedestrian.adult", "trafficcone", "barrier", "debris"}

NoColor == [r |-> D(0), g |-> D(0), b |-> D(0), a |-> D(0)]

\* The name variables while another part of the program is looked at.
NameIdle ==
  /\ inDirectoryPath = ""
  /\ sampleSetOpt = NoSampleSet
  /\ fileNameArg = ""
  /\ sampleTypeOpt = "NONE"
  /\ categoryArg = ""
  /\ color = NoColor
  /\ called = {}

\* One name, as a directory of the dataset and as a file name.
ClassifyInit ==
  /\ \E parent \in ParentPaths, name \in NamesOf(NameParts, MaxNameParts) :
       /\ inDirectoryPath = parent \o "/" \o name
       /\ fileNameArg = name
  /\ sampleSetOpt = NoSampleSet
  /\ sampleTypeOpt = "NONE"
  /\ categoryArg = ""
  /\ color = NoColor
  /\ called = {}

\* `auto sampleSetOpt = extractSampleSetDescriptorInDirectory(dir.path());`
ExtractSampleSetDescriptorCall ==
  /\ inDirectoryPath # ""
  /\ "extractSampleSetDescriptorInDirectory" \notin called
  /\ sampleSetOpt' = extractSampleSetDescriptorInDirectory(inDirectoryPath)
  /\ called' = called \cup {"extractSampleSetDescriptorInDirectory"}
  /\ UNCHANGED <<inDirectoryPath, fileNameArg, sampleTypeOpt, categoryArg, color>>
  /\ UNCHANGED <<pipeVars, convVars, boxVars, sceneVars>>

\* `sampleTypeOpt = getSampleType(sampleData.fileName);`
GetSampleTypeCall ==
  /\ fileNameArg # ""
  /\ "getSampleType" \notin called
  /\ sampleTypeOpt' = getSampleType(fileNameArg)
  /\ called' = called \cup {"getSampleType"}
  /\ UNCHANGED <<inDirectoryPath, sampleSetOpt, fileNameArg, categoryArg, color>>
  /\ UNCHANGED <<pipeVars, convVars, boxVars, sceneVars>>

ClassifyNext == ExtractSampleSetDescriptorCall \/ GetSampleTypeCall

ColorInit ==
  /\ categoryArg \in NamesOf(CategoryParts, MaxNameParts)
  /\ color = NoColor
  /\ inDirectoryPath = ""
  /\ sampleSetOpt = NoSampleSet
  /\ fileNameArg = ""
  /\ sampleTypeOpt = "NONE"
  /\ called = {}

\* `color = getColor(annotation.categoryName)` of makeBox.
GetColorCall ==
  /\ categoryArg # ""
  /\ "getColor" \notin called
  /\ color' = getColor(categoryArg)
  /\ called' = called \cup {"getColor"}
  /\ UNCHANGED <<inDirectoryPath, sampleSetOpt, fileNameArg, sampleTypeOpt,
                 categoryArg>>
  /\ UNCHANGED <<pipeVars, convVars, boxVars, sceneVars>>

ColorNext == GetColorCall

\* The converter's maps before any submit.
ConvIdle == sceneSamples = <<>> /\ sceneAnnotations = <<>>

\* processSampleSets on its own.
PipeSpecInit == PipeInit /\ ConvIdle /\ BoxIdle /\ SceneIdle /\ NameIdle
PipeSpec == PipeSpecInit /\ [][PipeNext]_vars

\* getBoxes on its own.
BoxSpecInit == BoxInit /\ PipeIdle /\ SceneIdle /\ NameIdle
BoxSpec == BoxSpecInit /\ [][BoxNext]_vars

\* submit and run of one scene.
SceneSpecInit == SceneInit /\ PipeIdle /\ BoxIdle /\ NameIdle
SceneSpec == SceneSpecInit /\ [][SceneNext]_vars

PipeFairSpec == PipeSpec /\ WF_vars(MainThread) /\ WF_vars(Producers)

\* Both classifiers applied to one name.
ClassifySpecInit == ClassifyInit /\ PipeIdle /\ ConvIdle /\ BoxIdle /\ SceneIdle
ClassifySpec == ClassifySpecInit /\ [][ClassifyNext]_vars

\* getColor applied to one category name.
ColorSpecInit == ColorInit /\ PipeIdle /\ ConvIdle /\ BoxIdle /\ SceneIdle
ColorSpec == ColorSpecInit /\ [][ColorNext]_vars

(***************************************************************************)
(* Claims about processSampleSets.                                         *)
(***************************************************************************)

AllCamera == \A k \in 1..Len(sampleSets) : sampleSets[k].setType = "CAMERA"

\* Number of written messages that carry item n of converter k under topic.
WrittenCount(k, n, topic) ==
  Cardinality({w \in 1..Len(written) :
                 written[w].item = <<k, n>> /\ written[w].topic = topic})

RECURSIVE SumFiles(_)
SumFiles(n) == IF n = 0 THEN 0 ELSE sampleSets[n].files + SumFiles(n - 1)

\* Every decoded payload of every sample set has been forwarded exactly once,
\* under the topic of its own queue, and nothing else has been.
AllForwardedOnce ==
  /\ Len(written) = SumFiles(Len(sampleSets))
  /\ \A k \in 1..Len(sampleSets) : \A n \in 1..sampleSets[k].files :
       WrittenCount(k, n, topicNameForSampleSetType(
                            sampleSets[k].directoryName,
                            sampleSets[k].setType)) = 1

\* C1: given N >= 1 camera sample sets, under fair scheduling of the drain
\* thread and the pool threads, the drain loop terminates and by then every
\* payload of every set has been forwarded exactly once under the topic of
\* its queue.
C1_DrainTerminatesWithAll ==
  (Len(sampleSets) >= 1 /\ AllCamera)
    => <>(pc \in {"join", "done"} /\ AllForwardedOnce)

\* C2: the drain loop is left only when every queue is closed and empty, and
\* the bag is never closed while a pushed message is still unforwarded.
C2_ExitOnlyClosedAndEmpty ==
  /\ pc \in {"join", "done"} =>
       \A k \in 1..Len(typeErasedQueueList) :
         typeErasedQueueList[k].closed /\ typeErasedQueueList[k].items = <<>>
  /\ outBag = "closed" =>
       \A k \in 1..Len(sampleSets) : \A n \in 1..pushed[k] :
         \E w \in 1..Len(written) : written[w].item = <<k, n>>

\* C2 witness: the loop was left and the bag closed after a producer pushed
\* several messages through its queue.
C2_Witness == pc = "done" /\ outBag = "closed" /\ Len(written) >= 2

\* Number of pool tasks that run the converter of sample set k.
TasksFor(k) == Cardinality({t \in 1..Len(poolTasks) : poolTasks[t] = k})

\* C3: once processSampleSets has posted to the pool, every sample set has
\* exactly one decode task.
C3_OneTaskPerSampleSet ==
  pc \in {"openBag", "passStart", "readClosed", "readSize", "process",
          "passEnd", "join", "done"}
    => \A k \in 1..Len(sampleSets) : TasksFor(k) = 1

(***************************************************************************)
(* Claims about getBoxes (BoxSpec).                                        *)
(***************************************************************************)

\* The SampleData's owning sample is a sample of the scene.
HasOwner == sampleData.sampleToken \in DOMAIN sceneSamples
Owner == sceneSamples[sampleData.sampleToken]

\* Annotations attached to the sample `tok` (none when it has no entry).
Attached(tok) ==
  IF tok \in DOMAIN sceneAnnotations THEN sceneAnnotations[tok] ELSE <<>>

\* boxes[k] is the raw box of annotation `ann`: no interpolation applied.
IsRawBox(box, ann) ==
  /\ box.center = [x |-> D(ann.translation[1]), y |-> D(ann.translation[2]),
                   z |-> D(ann.translation[3])]
  /\ box.size = [x |-> D(ann.size[1]), y |-> D(ann.size[2]),
                 z |-> D(ann.size[3])]
  /\ box.orientation = [w |-> D(ann.rotation[1]), x |-> D(ann.rotation[2]),
                        y |-> D(ann.rotation[3]), z |-> D(ann.rotation[4])]
  /\ box.token = ann.token
  /\ box.category_name = ann.categoryName

\* C7: for a SampleData that is a key frame, or whose owning sample has an
\* empty prev token, getBoxes returns one raw box per annotation attached to
\* the owning sample, in the same order.
C7_KeyFrameBoxesAreRaw ==
  (boxPc = "returned" /\ HasOwner /\ (sampleData.isKeyFrame \/ Owner.prev = ""))
    => /\ Len(boxes) = Len(Attached(sampleData.sampleToken))
       /\ \A k \in 1..Len(boxes) :
            IsRawBox(boxes[k], Attached(sampleData.sampleToken)[k])

\* C7 witness: a sample without prev token, not flagged key frame, off the
\* sample's timestamp, with two annotations, got its two boxes.
C7_Witness ==
  /\ boxPc = "returned" /\ HasOwner
  /\ ~sampleData.isKeyFrame /\ Owner.prev = ""
  /\ sampleData.timeStamp # Owner.timeStamp
  /\ Len(boxes) = 2

\* The SampleData is intermediate and its previous sample is in the scene.
Intermediate ==
  /\ HasOwner
  /\ ~sampleData.isKeyFrame
  /\ Owner.prev # ""
  /\ Owner.prev \in DOMAIN sceneSamples

PrevSample == sceneSamples[Owner.prev]

\* C8: for an intermediate SampleData with sample timestamps t0 < t1, the
\* fraction is 0 when t < t0 and 1 when t > t1.
C8_FractionClamped ==
  (boxPc = "returned" /\ Intermediate
     /\ PrevSample.timeStamp < Owner.timeStamp)
    => \A k \in 1..Len(amounts) :
         /\ sampleData.timeStamp < PrevSample.timeStamp => amounts[k] = D(0)
         /\ sampleData.timeStamp > Owner.timeStamp => amounts[k] = D(1)

\* C8 witness: t0 = 100, t1 = 200, t = 50 and an instance was interpolated.
C8_Witness ==
  /\ boxPc = "returned" /\ Intermediate
  /\ PrevSample.timeStamp = 100 /\ Owner.timeStamp = 200
  /\ sampleData.timeStamp = 50
  /\ Len(amounts) >= 1

\* Instance tokens among the previous sample's annotations.
PrevInstances ==
  {Attached(Owner.prev)[j].instanceToken : j \in 1..Len(Attached(Owner.prev))}

\* C9: for an intermediate SampleData, every annotation of the current sample
\* whose instance does not occur among the previous sample's annotations gets
\* its unchanged box, at its place in the output.
C9_NewInstanceBoxUnchanged ==
  (boxPc = "returned" /\ Intermediate)
    => \A k \in 1..Len(Attached(sampleData.sampleToken)) :
         Attached(sampleData.sampleToken)[k].instanceToken \notin PrevInstances
           => /\ k <= Len(boxes)
              /\ IsRawBox(boxes[k], Attached(sampleData.sampleToken)[k])

\* First annotation of the previous sample with the given instance token.
PrevAnnotationOf(inst) ==
  LET prevAnns == Attached(Owner.prev)
  IN  prevAnns[CHOOSE j \in 1..Len(prevAnns) :
                 /\ prevAnns[j].instanceToken = inst
                 /\ \A i \in 1..(j - 1) : prevAnns[i].instanceToken # inst]

\* (1 - amount) * p + amount * c
Blend(amount, p, c) == Add(Mul(Sub(D(1), amount), D(p)), Mul(amount, D(c)))

\* C10: for an instance in both samples the interpolated centre is
\* (1 - amount) * previous + amount * current for the (finite) amount used:
\* the previous centre at 0, the current centre at 1, the mean at 1/2.
C10_CenterIsLerp ==
  (boxPc = "returned" /\ Intermediate /\ Len(amounts) >= 1
     /\ amounts[1].den # 0)
    => \A k \in 1..Len(boxes) :
         LET ann == Attached(sampleData.sampleToken)[k] IN
         ann.instanceToken \in PrevInstances =>
           LET p == PrevAnnotationOf(ann.instanceToken).translation
               c == ann.translation
               amount == amounts[1]
           IN  /\ boxes[k].center =
                    [x |-> Blend(amount, p[1], c[1]),
                     y |-> Blend(amount, p[2], c[2]),
                     z |-> Blend(amount, p[3], c[3])]
               /\ amount = D(0) => boxes[k].center = Vector3d(p)
               /\ amount = D(1) => boxes[k].center = Vector3d(c)
               /\ amount = Frac(1, 2) =>
                    boxes[k].center =
                      [x |-> Frac(p[1] + c[1], 2), y |-> Frac(p[2] + c[2], 2),
                       z |-> Frac(p[3] + c[3], 2)]

\* C10 witness: an instance of both samples interpolated half way between
\* t0 = 100 and t1 = 200.
C10_Witness ==
  /\ boxPc = "returned" /\ Intermediate
  /\ Len(amounts) >= 1 /\ amounts[1] = Frac(1, 2)
  /\ PrevSample.timeStamp = 100 /\ Owner.timeStamp = 200
  /\ \E k \in 1..Len(boxes) : boxes[k].token = "c1"

\* getBoxes went through its interpolation branch: both samples have their
\* entry of annotations.
Interpolated ==
  /\ boxPc = "returned" /\ Intermediate
  /\ sampleData.sampleToken \in DOMAIN sceneAnnotations
  /\ Owner.prev \in DOMAIN sceneAnnotations

\* a <= b for two finite fractions.
FracLeq(a, b) == a.num * b.den <= b.num * a.den

\* C17: whatever the order of the timestamps t0 of the previous sample, t1
\* of the current sample and t of the SampleData, the clamped timestamp lies
\* in [t0, t1], the denominator t1 - t0 is not 0 and every fraction used is a
\* defined value in [0, 1].
C17_FractionDefined ==
  Interpolated =>
    LET t0 == PrevSample.timeStamp
        t1 == Owner.timeStamp
        t == ClampTimeStamp(t0, t1, sampleData.timeStamp)
    IN  /\ t0 <= t /\ t <= t1
        /\ UnsignedMinus(t1, t0) # 0
        /\ \A k \in 1..Len(amounts) :
             /\ amounts[k].den # 0
             /\ FracLeq(D(0), amounts[k]) /\ FracLeq(amounts[k], D(1))

(***************************************************************************)
(* Claims about SceneConverter::submit and run (SceneSpec).                *)
(***************************************************************************)

\* ros::Time comparison a <= b.
RosTimeLeq(a, b) == a.sec < b.sec \/ (a.sec = b.sec /\ a.nsec <= b.nsec)

\* C4: in the log run writes, the messages of every topic are in
\* nondecreasing timestamp order.
C4_TopicsInTimeOrder ==
  \A i \in 1..Len(log) : \A j \in 1..Len(log) :
    (i < j /\ log[i].topic = log[j].topic)
      => RosTimeLeq(log[i].time, log[j].time)

\* The phase of run a written message belongs to.
PhaseOf(entry) ==
  IF entry.msg.kind \in {"odometry", "tf"} THEN 1
  ELSE IF entry.msg.kind \in {"boxes", "markers"} THEN 2
  ELSE 3

KindCount(kind) ==
  Cardinality({k \in 1..Len(log) : log[k].msg.kind = kind})

C5_State ==
  \* one log, named by the numeric scene id of the index
  /\ scenePc \in {"egoPoses", "annotations", "sampleDatas", "close",
                  "complete", "runThrew"}
       => bagsOpened = <<"out/" \o ToString(metaData.sceneId) \o ".bag">>
  /\ scenePc \in {"created", "submitted"} => bagsOpened = <<>>
  \* no message of a later phase before one of an earlier phase
  /\ \A i \in 1..Len(log) : \A j \in 1..Len(log) :
       i < j => PhaseOf(log[i]) <= PhaseOf(log[j])
  \* every ego pose has its odometry and transform message before phase 2
  /\ scenePc \in {"annotations", "sampleDatas", "close", "complete"}
       => /\ KindCount("odometry") = Len(metaData.egoPoses)
          /\ KindCount("tf") = Len(metaData.egoPoses)
  \* the log is closed when run is over, and only then
  /\ scenePc \in {"complete", "runThrew"} <=> bagState = "closed"

\* C5: run opens exactly one log named by the scene id, writes the ego-pose
\* messages, then the annotation messages, then the sensor payloads, and the
\* log is closed on every path by which run finishes, with no write after.
C5_OneLogThreePhasesClosed ==
  [](C5_State) /\ [][bagState = "closed" => log' = log]_vars

\* C5 witness: a complete run whose closed log holds messages of all three
\* phases.
C5_Witness ==
  /\ scenePc = "complete" /\ bagState = "closed"
  /\ \E i \in 1..Len(log) : PhaseOf(log[i]) = 1
  /\ \E i \in 1..Len(log) : PhaseOf(log[i]) = 2
  /\ \E i \in 1..Len(log) : PhaseOf(log[i]) = 3

\* C6: submit with a token unknown to the index fails for that scene only:
\* the converter's scene state stays unpopulated and the process, with its
\* sibling scenes, keeps running.
C6_MissingSceneStopsOnlyThatScene ==
  (scenePc # "created" /\ ~getSceneInfo(metaData, sceneTokenArg).present)
    => /\ scenePc \in MissingSceneOutcomes
       /\ sceneId = 0 /\ sceneSamples = <<>> /\ sceneAnnotations = <<>>
       /\ sampleDatas = <<>> /\ egoPoseInfos = <<>>
       /\ procState = "running"

\* Microseconds of a ros::Time.
MicroSeconds(time) == time.sec * 1000000 + time.nsec \div 1000

\* Lower-cased name of the sensor behind a calibrated sensor token.
LowerSensorName(calibratedSensorToken) ==
  IF calibratedSensorToken = "cs_lidar" THEN "lidar_top"
  ELSE IF calibratedSensorToken = "cs_cam" THEN "cam_front"
  ELSE "radar_front"

\* The payload written for a file of the given sensor type.
PayloadKind(sampleType) ==
  IF sampleType = "CAMERA" THEN "image"
  ELSE IF sampleType = "LIDAR" THEN "pointcloud"
  ELSE IF sampleType = "RADAR" THEN "radar"
  ELSE "none"

AnnotationsDone == scenePc \in {"sampleDatas", "close", "complete"}

OnBoxes(e) == e.topic = "boxes"
OnBoxesViz(e) == e.topic = "boxes_viz"

\* The name holds the marker LIDAR and none of the markers tried before it.
IsLidarName(name) ==
  /\ stringContains(name, "LIDAR")
  /\ ~stringContains(name, "CAM")
  /\ ~stringContains(name, "RADAR")

IsLidarSampleData(sd) == IsLidarName(sd.fileName)

\* The log holds, in the order of `sds`, one box list and one marker list per
\* record of `sds`, stamped with the record's timestamp, the marker list with
\* one marker per box.
BoxMessagesFor(sds) ==
  LET boxMsgs == SelectSeq(log, OnBoxes)
      vizMsgs == SelectSeq(log, OnBoxesViz)
  IN  /\ Len(boxMsgs) = Len(sds)
      /\ Len(vizMsgs) = Len(sds)
      /\ \A k \in 1..Len(sds) :
           /\ boxMsgs[k].msg.kind = "boxes"
           /\ vizMsgs[k].msg.kind = "markers"
           /\ MicroSeconds(boxMsgs[k].time) = sds[k].timeStamp
           /\ MicroSeconds(boxMsgs[k].msg.header.stamp) = sds[k].timeStamp
           /\ MicroSeconds(vizMsgs[k].time) = sds[k].timeStamp
           /\ Len(vizMsgs[k].msg.markers) = Len(boxMsgs[k].msg.boxes)

\* C15: once convertAnnotations is through, the log holds for every
\* SampleData of the scene exactly one box list on "boxes" and one marker
\* list on "boxes_viz", stamped with the SampleData's timestamp, the marker
\* list holding one marker per box.
C15_EverySampleDataHasBoxes ==
  AnnotationsDone => BoxMessagesFor(sampleDatas)

\* C15 as amended: the same for every SampleData whose file name
\* getSampleType classifies as LIDAR, and no such message for any other.
C15_LidarSampleDataHasBoxes ==
  AnnotationsDone => BoxMessagesFor(SelectSeq(sampleDatas, IsLidarSampleData))

\* C15 witness: a finished run over a lidar key frame and a camera key frame
\* whose one box list holds the sample's two boxes.
C15_Witness ==
  /\ scenePc = "complete"
  /\ Len(sampleDatas) = 2
  /\ \E k \in 1..2 : IsLidarSampleData(sampleDatas[k])
  /\ \E k \in 1..2 : getSampleType(sampleDatas[k].fileName) = "CAMERA"
  /\ \E i \in 1..Len(log) :
       log[i].topic = "boxes" /\ Len(log[i].msg.boxes) = 2
  /\ \E i \in 1..Len(log) :
       log[i].topic = "boxes_viz" /\ Len(log[i].msg.markers) = 2

\* C16: in convertSampleDatas a file whose reader returns no message, and a
\* file whose name holds no sensor marker, add nothing to the log; a file
\* with a marker whose reader returns a message adds that message; and in
\* each case the loop goes on to the next SampleData.
C16_SkippedFilesWriteNothing ==
  [][(scenePc = "sampleDatas" /\ si <= Len(sampleDatas)
        /\ readResults' # readResults) =>
       LET sd == sampleDatas[si]
           r == readResults'[Len(readResults')]
           unclassified == getSampleType(sd.fileName) = "NONE"
       IN  /\ (r = "absent" \/ unclassified) => log' = log
           /\ (r = "decoded" /\ ~unclassified) => Len(log') = Len(log) + 1
           /\ si' = si + 1
           /\ scenePc' = "sampleDatas"
           /\ procState' = "running"]_vars

(***************************************************************************)
(* Claims about the classifiers (ClassifySpec).                            *)
(***************************************************************************)

\* Two one-character strings that are the same letter in either case.
SameLetter(a, b) ==
  \/ a = b
  \/ \E k \in 1..Len(UpperCase) :
       {a, b} = {SubSeq(UpperCase, k, k), SubSeq(LowerCase, k, k)}

\* The marker occurs in the name at some position, case ignored.
OccursIgnoringCase(marker, name) ==
  \E k \in 1..(Len(name) - Len(marker) + 1) :
    \A j \in 1..Len(marker) :
      SameLetter(SubSeq(name, k + j - 1, k + j - 1), SubSeq(marker, j, j))

\* The category the first matching marker of CAM, RADAR, LIDAR gives a name.
CategoryIgnoringCase(name) ==
  IF OccursIgnoringCase("CAM", name) THEN "CAMERA"
  ELSE IF OccursIgnoringCase("RADAR", name) THEN "RADAR"
  ELSE IF OccursIgnoringCase("LIDAR", name) THEN "LIDAR"
  ELSE "NONE"

DirectoryClassified == "extractSampleSetDescriptorInDirectory" \in called
FileClassified == "getSampleType" \in called

\* C11: extractSampleSetDescriptorInDirectory gives a directory the category
\* of the first of the markers CAM, RADAR, LIDAR that occurs in its name with
\* case ignored, and no value when none occurs: "CAM_FRONT" and "cam_front"
\* give CAMERA, "LIDAR_TOP" gives LIDAR, "MISC_SENSOR" gives no value.
C11_DirectoryClassification ==
  DirectoryClassified =>
    /\ sampleSetOpt.present <=> (CategoryIgnoringCase(fileNameArg) # "NONE")
    /\ sampleSetOpt.present =>
         /\ sampleSetOpt.setType = CategoryIgnoringCase(fileNameArg)
         /\ sampleSetOpt.directoryName = fileNameArg
         /\ sampleSetOpt.directoryPath = inDirectoryPath
    /\ fileNameArg \in {"CAM_FRONT", "cam_front"} =>
         sampleSetOpt.present /\ sampleSetOpt.setType = "CAMERA"
    /\ fileNameArg = "LIDAR_TOP" =>
         sampleSetOpt.present /\ sampleSetOpt.setType = "LIDAR"
    /\ fileNameArg = "MISC_SENSOR" => ~sampleSetOpt.present

\* A lower-case camera directory below a dataset root that itself holds a
\* marker has been classified.
C11_Witness ==
  /\ DirectoryClassified
  /\ inDirectoryPath = "/data/CAM_set/samples/cam_front"
  /\ sampleSetOpt.setType = "CAMERA"

\* C12: getSampleType gives a name the category (or no value) that the
\* directory classifier gives the same name.
C12_FileClassificationAgrees ==
  (DirectoryClassified /\ FileClassified) =>
    sampleTypeOpt = (IF sampleSetOpt.present THEN sampleSetOpt.setType
                                             ELSE "NONE")

(***************************************************************************)
(* Claims about getColor (ColorSpec).                                      *)
(***************************************************************************)

RGBA(r, g, b, a) ==
  [r |-> Frac(r, 1000), g |-> Frac(g, 1000), b |-> Frac(b, 1000),
   a |-> Frac(a, 1000)]

\* The keyword rules in the order they are tried, colours in thousandths.
ColorRules ==
  <<<<"bicycle", RGBA(1000, 239, 388, 1000)>>,
    <<"motorcycle", RGBA(1000, 239, 388, 1000)>>,
    <<"vehicle", RGBA(1000, 619, 0, 1000)>>,
    <<"bus", RGBA(1000, 619, 0, 1000)>>,
    <<"car", RGBA(1000, 619, 0, 1000)>>,
    <<"construction_vehicle", RGBA(1000, 619, 0, 1000)>>,
    <<"trailer", RGBA(1000, 619, 0, 1000)>>,
    <<"truck", RGBA(1000, 619, 0, 1000)>>,
    <<"pedestrian", RGBA(0, 0, 901, 1000)>>,
    <<"cone", RGBA(0, 0, 0, 1000)>>,
    <<"barrier", RGBA(0, 0, 0, 1000)>>>>

MatchingRules(name) ==
  {k \in 1..Len(ColorRules) : stringContains(name, ColorRules[k][1])}

ColorByFirstRule(name) ==
  IF MatchingRules(name) = {} THEN RGBA(1000, 0, 1000, 1000)
  ELSE ColorRules[CHOOSE k \in MatchingRules(name) :
                    \A j \in MatchingRules(name) : k <= j][2]

\* C13: getColor gives every category name the colour of the first rule, in
\* the order bicycle, motorcycle, vehicle, bus, car, construction_vehicle,
\* trailer, truck, pedestrian, cone, barrier, whose keyword occurs in the
\* name, and magenta when none occurs: "vehicle.car" is orange,
\* "human.pedestrian.adult" is blue, a name of two rules has the colour of
\* the earlier one.
C13_ColorByFirstRule ==
  "getColor" \in called =>
    /\ color = ColorByFirstRule(categoryArg)
    /\ categoryArg = "vehicle.car" => color = RGBA(1000, 619, 0, 1000)
    /\ categoryArg = "human.pedestrian.adult" => color = RGBA(0, 0, 901, 1000)
    /\ categoryArg = "animal" => color = RGBA(1000, 0, 1000, 1000)
    /\ categoryArg = "vehicle.bicycle" => color = RGBA(1000, 239, 388, 1000)

\* A name that holds the keywords of the red and of the orange rule.
C13_Witness ==
  /\ "getColor" \in called
  /\ categoryArg = "vehicle.bicycle"
  /\ color = RGBA(1000, 239, 388, 1000)

====
